---- MODULE Spec2Model ----
(***************************************************************************)
(* Booking / inventory core of the Wanderlust travel backend               *)
(* (Koa + zod + Sequelize on MySQL).                                       *)
(*                                                                         *)
(* The database rows are the state.  Every request handler is written as   *)
(* a sequence of steps, one per awaited database call; a step is a pure    *)
(* operator from (db, request-local state) to (db, request-local state).   *)
(* Spec runs each handler to completion in one action (requests do not     *)
(* interleave); SpecBookings and SpecHotels are its booking routes and its *)
(* hotel routes; SpecConc runs the same steps one at a time for several    *)
(* requests in flight.  A response is the value a handler run returns; the *)
(* state keeps the database, the clock and the requests in flight.         *)
(* SpecAuth and SpecAuthConc are register and login over the users table;  *)
(* SpecRoutes sends requests through authenticate and authorize;           *)
(* SpecCatalog adds the public hotel reads to the hotel routes.            *)
(*                                                                         *)
(* Time is counted in ticks; TicksPerDay ticks make one day.  A request    *)
(* carries timestamps (ticks); a DATEONLY column keeps the day only.       *)
(***************************************************************************)
EXTENDS Integers, Sequences, FiniteSets, TLC

VARIABLES
    hotels,     \* the hotels table: a sequence indexed by id (autoIncrement)
    bookings,   \* the bookings table: a sequence indexed by id (autoIncrement)
    today,      \* the current day (the server was started on StartDay)
    procs,      \* the requests in flight (SpecConc): request-local state
    users,      \* the users table: a sequence indexed by id (autoIncrement)
    env         \* process.env: EMPLOYEE_SIGNUP_CODE and JWT_SECRET, set or not

vars == <<hotels, bookings, today, procs, users, env>>

----------------------------------------------------------------------------
(* Bounds of the model *)

MaxBookings == 1      \* rows in the bookings table
MaxHotels == 2        \* rows in the hotels table
MaxAvailable == 4     \* availableRooms is followed up to this value
MaxDay == 2           \* request timestamps lie in days 0..MaxDay
MaxToday == 1         \* the clock advances up to this day
InitTotalRooms == 2   \* totalRooms of the hotel present at start
MaxReqRooms == 3      \* requests ask for 0..MaxReqRooms rooms, or for one more than the schema allows
MaxStay == 3          \* a create request's stay, in ticks
MaxFields == 1        \* an update body supplies at most this many of the modelled fields
MaxUsers == 2         \* rows in the users table

(* Program constants *)

TicksPerDay == 2          \* 1000 * 3600 * 24 ms, in ticks
StartDay == 0             \* new Date() evaluated when the Booking model is defined
MinRooms == 1
MaxRooms == 10
MinGuests == 1
MaxGuests == 20
DefaultTotalRooms == 10
DefaultAvailableRooms == 10
MinPasswordLen == 6

----------------------------------------------------------------------------
(* Values *)

None == <<>>
Some(v) == <<v>>
IsSome(o) == o /= <<>>
Val(o) == o[1]

Ticks == 0 .. (MaxDay * TicksPerDay + TicksPerDay - 1)
DayOf(t) == t \div TicksPerDay
Midnight(d) == d * TicksPerDay

\* Math.ceil(a / b), b > 0
Ceil(a, b) == -((-a) \div b)

\* ctx.user: the verified token's payload
Callers ==
    { [userId |-> 1, role |-> "customer"],
      [userId |-> 2, role |-> "customer"],
      [userId |-> 3, role |-> "employee"],
      [userId |-> 4, role |-> "admin"] }

isAdmin(c) == c.role = "admin"
isEmployee(c) == c.role = "employee"

Statuses == {"pending", "confirmed", "cancelled", "completed"}

Reply(op, status, message, data) ==
    [op |-> op, status |-> status, message |-> message, data |-> data]

NoReply == Reply("none", 0, "", None)

\* The body of an error response besides its message
Error(code) == Some([error |-> code])

DB == [hotels |-> hotels, bookings |-> bookings]

----------------------------------------------------------------------------
(* Request-local state of a handler: what it holds between awaits *)

Local(op, pc, caller, id, body) ==
    [ op |-> op, pc |-> pc, caller |-> caller, id |-> id, body |-> body,
      hotel |-> None,        \* Some(Hotel instance) as read by this request
      booking |-> None,      \* Some(Booking instance) as read by this request
      nights |-> 0, totalPrice |-> 0,
      resp |-> NoReply ]

Done(loc, status, message, data) ==
    [loc EXCEPT !.pc = "done", !.resp = Reply(loc.op, status, message, data)]

\* A model instance: the row and its primary key
WithId(row, id) == [id |-> id] @@ row

\* Hotel.findByPk(id): the row with its id, or null
FindHotelByPk(db, id) ==
    IF id \in DOMAIN db.hotels
    THEN Some(WithId(db.hotels[id], id))
    ELSE None

\* A where-clause without the userId condition: C8_OwnBookingsOnly fails with it
Visible_ToEveryone(caller, b) == TRUE

\* The where-clause of getBookingById / updateBooking / cancelBooking:
\* { id } and, unless the caller is admin or employee, userId = caller
Visible(caller, b) ==
    isAdmin(caller) \/ isEmployee(caller) \/ b.userId = caller.userId

\* Booking.findOne({ where: whereConditions })
FindBooking(db, caller, id) ==
    IF id \in DOMAIN db.bookings /\ Visible(caller, db.bookings[id])
    THEN Some(WithId(db.bookings[id], id))
    ELSE None

\* A canBeCancelled() that accepts every status: C2_CancelOnce fails with it
canBeCancelled_AnyStatus(b) == TRUE

\* Booking.canBeCancelled()
canBeCancelled(b) == b.status = "confirmed" \/ b.status = "pending"

\* Booking.isActive()
isActive(b) == b.status = "confirmed" \/ b.status = "pending"

----------------------------------------------------------------------------
(* createBooking *)

\* A schema that lets every body through: C12_Rejected fails with it
createBookingSchema_Lax(body, now) == TRUE

\* createBookingSchema.parse(ctx.request.body) succeeds
createBookingSchema(body, now) ==
    /\ body.hotelId > 0
    /\ body.numberOfGuests >= MinGuests /\ body.numberOfGuests <= MaxGuests
    /\ body.numberOfRooms >= MinRooms /\ body.numberOfRooms <= MaxRooms
    /\ body.checkOutDate > body.checkInDate
    /\ body.checkInDate >= Midnight(now)

\* The attribute validators of the Booking model, each on the value it is given.
\* A DATEONLY attribute is sanitized to its day when it is set.
checkInDateValid(day) == day > StartDay
checkOutDateValid(day, checkInDay) == ~(day <= checkInDay)
numberOfRoomsValid(n) == n >= MinRooms /\ n <= MaxRooms
numberOfGuestsValid(n) == n >= MinGuests /\ n <= MaxGuests
totalPriceValid(p) == p >= 0
availableRoomsValid(n) == n >= 0

\* instance.validate() of a new Booking: every attribute, with the not-null
\* check of allowNull: false; save() validates before it runs beforeCreate
BookingCreateValid(v) ==
    /\ IsSome(v.bookingReference)
    /\ checkInDateValid(v.checkInDate)
    /\ checkOutDateValid(v.checkOutDate, v.checkInDate)
    /\ numberOfGuestsValid(v.numberOfGuests)
    /\ numberOfRoomsValid(v.numberOfRooms)
    /\ totalPriceValid(v.totalPrice)

\* hooks.beforeCreate: generate a reference when the record has none
beforeCreate(v, newId) ==
    IF ~IsSome(v.bookingReference)
    THEN [v EXCEPT !.bookingReference = Some(newId)]
    ELSE v

StartCreate(caller, body, now) ==
    LET loc == Local("createBooking", "findHotel", caller, 0, body) IN
    IF createBookingSchema(body, now)
    THEN loc
    ELSE Done(loc, 400, "Invalid booking data", None)

\* The lookup without the availability check; C22_NeverNegative fails with it
CreateFindHotel_Unchecked(db, loc) ==
    LET hotel == FindHotelByPk(db, loc.body.hotelId) IN
    IF ~IsSome(hotel) \/ ~Val(hotel).isActive
    THEN [db |-> db, loc |-> Done(loc, 404, "Hotel not found or not available", None)]
    ELSE [ db |-> db,
           loc |-> [loc EXCEPT !.pc = "createBooking", !.hotel = hotel] ]

\* await Hotel.findByPk; the checks and the price, up to Booking.create
CreateFindHotel(db, loc) ==
    LET hotel == FindHotelByPk(db, loc.body.hotelId) IN
    IF ~IsSome(hotel) \/ ~Val(hotel).isActive
    THEN [db |-> db, loc |-> Done(loc, 404, "Hotel not found or not available", None)]
    ELSE IF Val(hotel).availableRooms < loc.body.numberOfRooms
    THEN [db |-> db, loc |-> Done(loc, 400, "Not enough rooms available", None)]
    ELSE LET nights == Ceil(loc.body.checkOutDate - loc.body.checkInDate, TicksPerDay) IN
         [ db |-> db,
           loc |-> [loc EXCEPT !.pc = "createBooking", !.hotel = hotel,
                               !.nights = nights,
                               !.totalPrice = Val(hotel).pricePerNight
                                              * loc.body.numberOfRooms * nights] ]

\* await Booking.create({...})
CreateInsert(db, loc) ==
    LET newId == Len(db.bookings) + 1
        values == [ userId |-> loc.caller.userId,
                    hotelId |-> loc.body.hotelId,
                    checkInDate |-> DayOf(loc.body.checkInDate),
                    checkOutDate |-> DayOf(loc.body.checkOutDate),
                    numberOfGuests |-> loc.body.numberOfGuests,
                    numberOfRooms |-> loc.body.numberOfRooms,
                    totalPrice |-> loc.totalPrice,
                    status |-> "pending",
                    paymentStatus |-> "pending",
                    bookingReference |-> None,
                    cancellationReason |-> None,
                    cancellationDate |-> None ]
    IN
    IF ~BookingCreateValid(values)
    THEN [db |-> db, loc |-> Done(loc, 500, "Internal server error", None)]
    ELSE LET row == beforeCreate(values, newId) IN
         [ db |-> [db EXCEPT !.bookings = Append(@, row)],
           loc |-> [loc EXCEPT !.pc = "updateHotel", !.id = newId] ]

\* await hotel.update({ availableRooms: hotel.availableRooms - numberOfRooms })
CreateUpdateHotel(db, loc) ==
    LET h == Val(loc.hotel)
        n == h.availableRooms - loc.body.numberOfRooms
    IN
    IF ~availableRoomsValid(n)
    THEN [db |-> db, loc |-> Done(loc, 500, "Internal server error", None)]
    ELSE [ db |-> [db EXCEPT !.hotels[h.id].availableRooms = n],
           loc |-> [loc EXCEPT !.pc = "fetch"] ]

\* await Booking.findByPk(booking.id); the 201 response
CreateFetch(db, loc) ==
    [ db |-> db,
      loc |-> Done(loc, 201, "Booking created successfully",
                   Some([ booking |-> db.bookings[loc.id],
                          numberOfNights |-> loc.nights ])) ]

\* One step of createBooking: from one await to the next
CreateStep(db, loc) ==
    CASE loc.pc = "findHotel" -> CreateFindHotel(db, loc)
      [] loc.pc = "createBooking" -> CreateInsert(db, loc)
      [] loc.pc = "updateHotel" -> CreateUpdateHotel(db, loc)
      [] loc.pc = "fetch" -> CreateFetch(db, loc)

----------------------------------------------------------------------------
(* updateBooking *)

\* updateBookingSchema.parse(ctx.request.body) succeeds.  The body's fields
\* are optional; the fields no handler reads (guests, contact, payment) are
\* left out of the model.
updateBookingSchema(body) ==
    /\ IsSome(body.numberOfRooms) =>
           Val(body.numberOfRooms) >= MinRooms /\ Val(body.numberOfRooms) <= MaxRooms
    /\ IsSome(body.status) => Val(body.status) \in Statuses
    /\ IsSome(body.totalPrice) => Val(body.totalPrice) > 0

StartUpdate(caller, id, body) ==
    LET loc == Local("updateBooking", "findBooking", caller, id, body) IN
    IF updateBookingSchema(body)
    THEN loc
    ELSE Done(loc, 400, "Invalid update data", None)

\* A handler that never computes the price again: C11_NoInventory fails with it
Reprices_Never(body) == FALSE

\* The dates or the room count are supplied: the price is computed again
Reprices(body) ==
    IsSome(body.checkInDate) \/ IsSome(body.checkOutDate) \/ IsSome(body.numberOfRooms)

\* A status rule that blocks nobody: C10_ClosedBookings fails with it
CannotModify_Never(caller, b) == FALSE

\* !ctx.user?.isAdmin && ["completed", "cancelled"].includes(booking.status)
CannotModify(caller, b) ==
    ~isAdmin(caller) /\ b.status \in {"completed", "cancelled"}

\* await Booking.findOne; the status rule
UpdateFindBooking(db, loc) ==
    LET booking == FindBooking(db, loc.caller, loc.id) IN
    IF ~IsSome(booking)
    THEN [db |-> db, loc |-> Done(loc, 404, "Booking not found", None)]
    ELSE IF CannotModify(loc.caller, Val(booking))
    THEN [db |-> db,
          loc |-> Done(loc, 400, "Cannot modify completed or cancelled bookings", None)]
    ELSE [ db |-> db,
           loc |-> [loc EXCEPT !.booking = booking,
                               !.pc = IF Reprices(loc.body) THEN "findHotel" ELSE "save"] ]

\* await Hotel.findByPk(booking.hotelId); updateData.totalPrice = ...
\* A stored DATEONLY value read back is the day; new Date(day) is its midnight.
UpdateFindHotel(db, loc) ==
    LET b == Val(loc.booking)
        hotel == FindHotelByPk(db, b.hotelId)
        checkIn == IF IsSome(loc.body.checkInDate)
                   THEN Val(loc.body.checkInDate) ELSE Midnight(b.checkInDate)
        checkOut == IF IsSome(loc.body.checkOutDate)
                    THEN Val(loc.body.checkOutDate) ELSE Midnight(b.checkOutDate)
        nights == Ceil(checkOut - checkIn, TicksPerDay)
        rooms == IF IsSome(loc.body.numberOfRooms)
                 THEN Val(loc.body.numberOfRooms) ELSE b.numberOfRooms
    IN
    IF ~IsSome(hotel)
    THEN [db |-> db, loc |-> Done(loc, 500, "Internal server error", None)]
    ELSE [ db |-> db,
           loc |-> [loc EXCEPT !.pc = "save", !.hotel = hotel, !.nights = nights,
                               !.body.totalPrice =
                                   Some(Val(hotel).pricePerNight * rooms * nights)] ]

\* instance.set(finalUpdateData): the instance with the supplied fields
SetBooking(b, body) ==
    [b EXCEPT
        !.checkInDate = IF IsSome(body.checkInDate)
                        THEN DayOf(Val(body.checkInDate)) ELSE @,
        !.checkOutDate = IF IsSome(body.checkOutDate)
                         THEN DayOf(Val(body.checkOutDate)) ELSE @,
        !.numberOfRooms = IF IsSome(body.numberOfRooms)
                          THEN Val(body.numberOfRooms) ELSE @,
        !.status = IF IsSome(body.status) THEN Val(body.status) ELSE @,
        !.totalPrice = IF IsSome(body.totalPrice) THEN Val(body.totalPrice) ELSE @]

\* instance.validate() on update: the validators of the supplied fields only
\* (save() skips every attribute that is not among options.fields)
BookingUpdateValid(b, body) ==
    /\ IsSome(body.checkInDate) => checkInDateValid(b.checkInDate)
    /\ IsSome(body.checkOutDate) => checkOutDateValid(b.checkOutDate, b.checkInDate)
    /\ IsSome(body.numberOfRooms) => numberOfRoomsValid(b.numberOfRooms)
    /\ IsSome(body.totalPrice) => totalPriceValid(b.totalPrice)

\* The columns an update of the booking writes: the supplied fields
WriteBooking(row, b, body) ==
    [row EXCEPT
        !.checkInDate = IF IsSome(body.checkInDate) THEN b.checkInDate ELSE @,
        !.checkOutDate = IF IsSome(body.checkOutDate) THEN b.checkOutDate ELSE @,
        !.numberOfRooms = IF IsSome(body.numberOfRooms) THEN b.numberOfRooms ELSE @,
        !.status = IF IsSome(body.status) THEN b.status ELSE @,
        !.totalPrice = IF IsSome(body.totalPrice) THEN b.totalPrice ELSE @]

\* await booking.update(finalUpdateData); the 200 response
UpdateSave(db, loc) ==
    LET b == SetBooking(Val(loc.booking), loc.body) IN
    IF ~BookingUpdateValid(b, loc.body)
    THEN [db |-> db, loc |-> Done(loc, 500, "Internal server error", None)]
    ELSE [ db |-> [db EXCEPT !.bookings[loc.id] = WriteBooking(@, b, loc.body)],
           loc |-> Done(loc, 200, "Booking updated successfully", Some(b)) ]

UpdateStep(db, loc) ==
    CASE loc.pc = "findBooking" -> UpdateFindBooking(db, loc)
      [] loc.pc = "findHotel" -> UpdateFindHotel(db, loc)
      [] loc.pc = "save" -> UpdateSave(db, loc)

----------------------------------------------------------------------------
(* cancelBooking *)

StartCancel(caller, id, body) ==
    Local("cancelBooking", "findBooking", caller, id, body)

\* await Booking.findOne({ include: hotel }); canBeCancelled
CancelFindBooking(db, loc) ==
    LET booking == FindBooking(db, loc.caller, loc.id) IN
    IF ~IsSome(booking)
    THEN [db |-> db, loc |-> Done(loc, 404, "Booking not found", None)]
    ELSE IF ~canBeCancelled(Val(booking))
    THEN [db |-> db, loc |-> Done(loc, 400, "This booking cannot be cancelled", None)]
    ELSE [ db |-> db,
           loc |-> [loc EXCEPT !.pc = "saveBooking", !.booking = booking,
                               !.hotel = FindHotelByPk(db, Val(booking).hotelId)] ]

\* await booking.update({ status, cancellationReason, cancellationDate })
CancelSaveBooking(db, loc, now) ==
    LET reason == IF IsSome(loc.body.cancellationReason)
                  THEN loc.body.cancellationReason
                  ELSE Some("Cancelled by user")
    IN
    [ db |-> [db EXCEPT !.bookings[loc.id].status = "cancelled",
                        !.bookings[loc.id].cancellationReason = reason,
                        !.bookings[loc.id].cancellationDate = Some(now)],
      loc |-> IF IsSome(loc.hotel)
              THEN [loc EXCEPT !.pc = "updateHotel"]
              ELSE Done(loc, 200, "Booking cancelled successfully", None) ]

\* A cancellation that leaves the hotel as it is; C23_CreateCancelConserve
\* fails with it
CancelUpdateHotel_Kept(db, loc) ==
    [db |-> db, loc |-> Done(loc, 200, "Booking cancelled successfully", None)]

\* An increment of the stored value in place of the write of the value read
\* plus the rooms; C25_RestoredOnce fails with it
CancelUpdateHotel_Increment(db, loc) ==
    [ db |-> [db EXCEPT !.hotels[Val(loc.hotel).id].availableRooms
                           = @ + Val(loc.booking).numberOfRooms],
      loc |-> Done(loc, 200, "Booking cancelled successfully", None) ]

\* await hotel.update({ availableRooms: hotel.availableRooms + numberOfRooms })
CancelUpdateHotel(db, loc) ==
    LET h == Val(loc.hotel)
        n == h.availableRooms + Val(loc.booking).numberOfRooms
    IN
    IF ~availableRoomsValid(n)
    THEN [db |-> db, loc |-> Done(loc, 500, "Internal server error", None)]
    ELSE [ db |-> [db EXCEPT !.hotels[h.id].availableRooms = n],
           loc |-> Done(loc, 200, "Booking cancelled successfully", None) ]

CancelStep(db, loc, now) ==
    CASE loc.pc = "findBooking" -> CancelFindBooking(db, loc)
      [] loc.pc = "saveBooking" -> CancelSaveBooking(db, loc, now)
      [] loc.pc = "updateHotel" -> CancelUpdateHotel(db, loc)

----------------------------------------------------------------------------
(* getBookingById, getMyBookings *)

\* Math.round(a / b), b > 0
Round(a, b) == (2 * a + b) \div (2 * b)

\* What a DATEONLY attribute reads back as: the 'YYYY-MM-DD' string the MySQL
\* dialect parses it to, not a Date object
DateOnlyIsDate == FALSE

\* Booking.getNumberOfNights(): this.checkOutDate.getTime() - ...; it throws a
\* TypeError (None) when the stored dates have no getTime
getNumberOfNights(b) ==
    IF DateOnlyIsDate
    THEN Some(Round(Midnight(b.checkOutDate) - Midnight(b.checkInDate), TicksPerDay))
    ELSE None

\* The response's view of a booking: toJSON() and the computed fields
BookingView(b) ==
    [booking |-> b, numberOfNights |-> Val(getNumberOfNights(b))]

StartGet(caller, id) == Local("getBookingById", "findBooking", caller, id, None)

GetStep(db, loc) ==
    LET booking == FindBooking(db, loc.caller, loc.id) IN
    IF ~IsSome(booking)
    THEN [db |-> db, loc |-> Done(loc, 404, "Booking not found", None)]
    ELSE IF ~IsSome(getNumberOfNights(Val(booking)))
    THEN [db |-> db, loc |-> Done(loc, 500, "Internal server error", None)]
    ELSE [db |-> db,
          loc |-> Done(loc, 200, "Booking retrieved successfully",
                       Some(BookingView(Val(booking))))]

StartGetMy(caller, body) == Local("getMyBookings", "findAll", caller, 0, body)

\* Booking.findAndCountAll({ where: { userId, status? } })
MyBookings(db, caller, status) ==
    { i \in DOMAIN db.bookings :
        /\ db.bookings[i].userId = caller.userId
        /\ IsSome(status) => db.bookings[i].status = Val(status) }

GetMyStep(db, loc) ==
    LET found == MyBookings(db, loc.caller, loc.body.status) IN
    IF \E i \in found : ~IsSome(getNumberOfNights(db.bookings[i]))
    THEN [db |-> db, loc |-> Done(loc, 500, "Internal server error", None)]
    ELSE [db |-> db,
          loc |-> Done(loc, 200, "Found bookings",
                       Some({BookingView(WithId(db.bookings[i], i)) : i \in found}))]

----------------------------------------------------------------------------
(* Hotels: createHotel, updateHotel, deleteHotel behind authenticate/authorize *)

\* A guard that lets every role through; C19_RoleGuards fails with it
authorize_Any(caller, roles) == TRUE

\* authorize(...roles): the caller's role is one of the route's roles
authorize(caller, roles) == caller.role \in roles

\* createHotelSchema.parse succeeds (name and price are required)
createHotelSchema(body) ==
    /\ IsSome(body.name)
    /\ IsSome(body.pricePerNight) /\ Val(body.pricePerNight) > 0
    /\ IsSome(body.totalRooms) => Val(body.totalRooms) > 0
    /\ IsSome(body.availableRooms) => Val(body.availableRooms) >= 0

\* updateHotelSchema = createHotelSchema.partial()
updateHotelSchema(body) ==
    /\ IsSome(body.pricePerNight) => Val(body.pricePerNight) > 0
    /\ IsSome(body.totalRooms) => Val(body.totalRooms) > 0
    /\ IsSome(body.availableRooms) => Val(body.availableRooms) >= 0

NameTaken(db, name, exceptId) ==
    \E i \in DOMAIN db.hotels : i /= exceptId /\ db.hotels[i].name = name

CreateHotelRun(db, caller, body) ==
    LET loc == Local("createHotel", "start", caller, 0, body) IN
    IF ~authorize(caller, {"admin", "employee"})
    THEN [db |-> db, loc |-> Done(loc, 403, "Insufficient permissions",
                       Error("INSUFFICIENT_PERMISSIONS"))]
    ELSE IF ~createHotelSchema(body)
    THEN [db |-> db, loc |-> Done(loc, 400, "Invalid hotel data", None)]
    ELSE IF NameTaken(db, Val(body.name), 0)
    THEN [db |-> db,
          loc |-> Done(loc, 409, "Hotel with this name already exists in this city", None)]
    ELSE LET row == [ name |-> Val(body.name),
                      isActive |-> TRUE,
                      pricePerNight |-> Val(body.pricePerNight),
                      totalRooms |-> IF IsSome(body.totalRooms)
                                     THEN Val(body.totalRooms) ELSE DefaultTotalRooms,
                      availableRooms |-> IF IsSome(body.availableRooms)
                                         THEN Val(body.availableRooms)
                                         ELSE DefaultAvailableRooms ]
         IN [ db |-> [db EXCEPT !.hotels = Append(@, row)],
              loc |-> Done(loc, 201, "Hotel created successfully", Some(row)) ]

\* hotel.update(updateData): the supplied fields
SetHotel(h, body) ==
    [h EXCEPT
        !.name = IF IsSome(body.name) THEN Val(body.name) ELSE @,
        !.pricePerNight = IF IsSome(body.pricePerNight) THEN Val(body.pricePerNight) ELSE @,
        !.totalRooms = IF IsSome(body.totalRooms) THEN Val(body.totalRooms) ELSE @,
        !.availableRooms = IF IsSome(body.availableRooms)
                           THEN Val(body.availableRooms) ELSE @]

UpdateHotelRun(db, caller, id, body) ==
    LET loc == Local("updateHotel", "start", caller, id, body) IN
    IF ~authorize(caller, {"admin", "employee"})
    THEN [db |-> db, loc |-> Done(loc, 403, "Insufficient permissions",
                       Error("INSUFFICIENT_PERMISSIONS"))]
    ELSE IF ~updateHotelSchema(body)
    THEN [db |-> db, loc |-> Done(loc, 400, "Invalid update data", None)]
    ELSE IF id \notin DOMAIN db.hotels
    THEN [db |-> db, loc |-> Done(loc, 404, "Hotel not found", None)]
    ELSE IF /\ IsSome(body.name)
            /\ Val(body.name) /= db.hotels[id].name
            /\ NameTaken(db, Val(body.name), id)
    THEN [db |-> db,
          loc |-> Done(loc, 409, "Hotel with this name already exists in this city", None)]
    ELSE [ db |-> [db EXCEPT !.hotels[id] = SetHotel(@, body)],
           loc |-> Done(loc, 200, "Hotel updated successfully", None) ]

DeleteHotelRun(db, caller, id) ==
    LET loc == Local("deleteHotel", "start", caller, id, None) IN
    IF ~authorize(caller, {"admin"})
    THEN [db |-> db, loc |-> Done(loc, 403, "Insufficient permissions",
                       Error("INSUFFICIENT_PERMISSIONS"))]
    ELSE IF id \notin DOMAIN db.hotels
    THEN [db |-> db, loc |-> Done(loc, 404, "Hotel not found", None)]
    ELSE [ db |-> [db EXCEPT !.hotels[id].isActive = FALSE],
           loc |-> Done(loc, 200, "Hotel deleted successfully", None) ]

\* getAllHotels: where isActive = true and, for rooms > 0, availableRooms >= rooms
GetAllHotelsRun(db, query) ==
    LET loc == Local("getAllHotels", "start", [userId |-> 0, role |-> "none"], 0, query)
        found == { h \in DOMAIN db.hotels :
                     /\ db.hotels[h].isActive
                     /\ query.rooms > 0 => db.hotels[h].availableRooms >= query.rooms }
    IN [db |-> db,
        loc |-> Done(loc, 200, "Found hotels",
                     Some({WithId(db.hotels[h], h) : h \in found}))]

\* A lookup to which every hotel is active; C20_SoftDelete fails with it
NotActive_Never(db, id) == FALSE

\* Hotel.findByPk answers with a row that is not active
NotActive(db, id) == id \in DOMAIN db.hotels /\ ~db.hotels[id].isActive

\* getHotelById
GetHotelByIdRun(db, id) ==
    LET loc == Local("getHotelById", "start", [userId |-> 0, role |-> "none"], id, None) IN
    IF id \notin DOMAIN db.hotels
    THEN [db |-> db, loc |-> Done(loc, 404, "Hotel not found", None)]
    ELSE IF NotActive(db, id)
    THEN [db |-> db, loc |-> Done(loc, 404, "Hotel is not available", None)]
    ELSE [db |-> db,
          loc |-> Done(loc, 200, "Hotel retrieved successfully",
                       Some(WithId(db.hotels[id], id)))]

\* checkAvailability; the route hands the static method over without its
\* class, so this.calculateNights throws once the hotel is found
CheckAvailabilityRun(db, id, query) ==
    LET loc == Local("checkAvailability", "start", [userId |-> 0, role |-> "none"],
                     id, query)
    IN
    IF ~query.dates
    THEN [db |-> db,
          loc |-> Done(loc, 400, "Check-in and check-out dates are required", None)]
    ELSE IF id \notin DOMAIN db.hotels \/ NotActive(db, id)
    THEN [db |-> db, loc |-> Done(loc, 404, "Hotel not found", None)]
    ELSE [db |-> db, loc |-> Done(loc, 500, "Internal server error", None)]

----------------------------------------------------------------------------
(* register, login.  A user row keeps the email, the password hash, the role *)
(* and isVerified; names and phone are left out of the model.  A password is *)
(* a sequence of characters.                                                 *)

Roles == {"customer", "employee", "admin"}

\* z.string().email(): the addresses that parse
EmailAddresses == {"ann@x.io", "bob@x.io", "admin@wanderlust.com"}
isEmail(e) == e \in EmailAddresses

\* bcrypt.hash(password, saltRounds)
hashPassword(password) == <<"bcrypt", password>>

\* A comparison that accepts every password; C17_Credentials fails with it
comparePassword_Any(password, hashedPassword) == TRUE

\* bcrypt.compare(password, hashedPassword)
comparePassword(password, hashedPassword) == hashedPassword = hashPassword(password)

\* generateToken(user): the signed payload, or None when it throws because
\* JWT_SECRET is not set
generateToken(user, e) ==
    IF e.jwtSecret
    THEN Some([ payload |-> [userId |-> user.id, role |-> user.role],
                email |-> user.email, signed |-> TRUE, expired |-> FALSE ])
    ELSE None

\* registerSchema.parse(ctx.request.body) succeeds
registerSchema(body) ==
    /\ isEmail(body.email)
    /\ Len(body.password) >= MinPasswordLen
    /\ IsSome(body.role) => Val(body.role) \in Roles

\* loginSchema.parse(ctx.request.body) succeeds
loginSchema(body) ==
    /\ isEmail(body.email)
    /\ Len(body.password) >= 1

\* User.findOne({ where: { email } })
FindUserByEmail(us, email) ==
    IF \E i \in DOMAIN us : us[i].email = email
    THEN LET i == CHOOSE i \in DOMAIN us : us[i].email = email
         IN  Some(WithId(us[i], i))
    ELSE None

StartRegister(body) ==
    LET loc == Local("register", "findUser", [userId |-> 0, role |-> "none"], 0, body) IN
    IF registerSchema(body)
    THEN loc
    ELSE Done(loc, 400, "Validation failed", Error("VALIDATION_ERROR"))

\* The role register gives the new user
userRole(body) ==
    IF IsSome(body.role) /\ Val(body.role) \in {"employee", "admin"}
    THEN Val(body.role)
    ELSE "customer"

\* The comparison alone, with no test that a code is configured; C15_SignupCode
\* fails with it
SignupCodeRefused_Compared(body, e) ==
    body.employeeSignupCode /= e.signupCode

\* !requiredCode || employeeSignupCode !== requiredCode
SignupCodeRefused(body, e) ==
    ~IsSome(e.signupCode) \/ body.employeeSignupCode /= e.signupCode

\* await User.findOne; the signup code of an employee or admin
RegisterFindUser(us, loc, e) ==
    IF IsSome(FindUserByEmail(us, loc.body.email))
    THEN [users |-> us,
          loc |-> Done(loc, 409, "User with this email already exists",
                       Error("USER_EXISTS"))]
    ELSE IF userRole(loc.body) /= "customer" /\ SignupCodeRefused(loc.body, e)
    THEN [users |-> us,
          loc |-> Done(loc, 403, "Invalid employee signup code",
                       Error("INVALID_SIGNUP_CODE"))]
    ELSE [users |-> us, loc |-> [loc EXCEPT !.pc = "hashPassword"]]

\* await hashPassword(password)
RegisterHash(us, loc) ==
    [users |-> us, loc |-> [loc EXCEPT !.pc = "createUser"]]

\* User.create on a table with no unique index on email; C16_UniqueEmail fails
\* with it
RegisterCreate_NoIndex(us, loc, e) ==
    LET row == [ email |-> loc.body.email,
                 password |-> hashPassword(loc.body.password),
                 role |-> userRole(loc.body),
                 isVerified |-> userRole(loc.body) = "admin" ]
    IN  [ users |-> Append(us, row),
          loc |-> Done(loc, 201, "User registered successfully", None) ]

\* await User.create({...}) under the unique index on email; the token, 201
RegisterCreate(us, loc, e) ==
    LET row == [ email |-> loc.body.email,
                 password |-> hashPassword(loc.body.password),
                 role |-> userRole(loc.body),
                 isVerified |-> userRole(loc.body) = "admin" ]
        user == WithId(row, Len(us) + 1)
        token == generateToken(user, e)
    IN
    IF \E i \in DOMAIN us : us[i].email = row.email
    THEN [users |-> us,
          loc |-> Done(loc, 500, "Registration failed", Error("REGISTRATION_FAILED"))]
    ELSE [ users |-> Append(us, row),
           loc |-> IF IsSome(token)
                   THEN Done(loc, 201, "User registered successfully",
                             Some([user |-> user, token |-> Val(token)]))
                   ELSE Done(loc, 500, "Registration failed",
                             Error("REGISTRATION_FAILED")) ]

RegisterStep(us, loc, e) ==
    CASE loc.pc = "findUser" -> RegisterFindUser(us, loc, e)
      [] loc.pc = "hashPassword" -> RegisterHash(us, loc)
      [] loc.pc = "createUser" -> RegisterCreate(us, loc, e)

RECURSIVE RegisterRun(_, _, _)
\* register, run to its response
RegisterRun(us, loc, e) ==
    IF loc.pc = "done"
    THEN [users |-> us, loc |-> loc]
    ELSE LET r == RegisterStep(us, loc, e) IN RegisterRun(r.users, r.loc, e)

\* login: it reads the users table and writes nothing
LoginRun(us, body, e) ==
    LET loc == Local("login", "findUser", [userId |-> 0, role |-> "none"], 0, body)
        user == FindUserByEmail(us, body.email)
    IN
    IF ~loginSchema(body)
    THEN Done(loc, 400, "Validation failed", Error("VALIDATION_ERROR"))
    ELSE IF ~IsSome(user)
    THEN Done(loc, 401, "Invalid email or password", Error("INVALID_CREDENTIALS"))
    ELSE IF ~comparePassword(body.password, Val(user).password)
    THEN Done(loc, 401, "Invalid email or password", Error("INVALID_CREDENTIALS"))
    ELSE LET token == generateToken(Val(user), e) IN
         IF IsSome(token)
         THEN Done(loc, 200, "Login successful",
                   Some([user |-> Val(user), token |-> Val(token)]))
         ELSE Done(loc, 500, "Login failed", Error("LOGIN_FAILED"))

----------------------------------------------------------------------------
(* A handler run from one await to the next, and to its response *)

Step(db, loc, now) ==
    CASE loc.op = "createBooking" -> CreateStep(db, loc)
      [] loc.op = "updateBooking" -> UpdateStep(db, loc)
      [] loc.op = "cancelBooking" -> CancelStep(db, loc, now)
      [] loc.op = "getBookingById" -> GetStep(db, loc)
      [] loc.op = "getMyBookings" -> GetMyStep(db, loc)

RECURSIVE Run(_, _, _)
Run(db, loc, now) ==
    IF loc.pc = "done"
    THEN [db |-> db, loc |-> loc]
    ELSE LET r == Step(db, loc, now) IN Run(r.db, r.loc, now)

\* The handlers, run to completion on database db on day now
CreateBookingRun(db, now, caller, body) == Run(db, StartCreate(caller, body, now), now)
UpdateBookingRun(db, now, caller, id, body) == Run(db, StartUpdate(caller, id, body), now)
CancelBookingRun(db, now, caller, id, body) == Run(db, StartCancel(caller, id, body), now)
GetBookingByIdRun(db, now, caller, id) == Run(db, StartGet(caller, id), now)
GetMyBookingsRun(db, now, caller, body) == Run(db, StartGetMy(caller, body), now)

----------------------------------------------------------------------------
(* Requests *)

Opt(S) == {None} \cup {Some(v) : v \in S}

RoomChoices == (0 .. MaxReqRooms) \cup {MaxRooms + 1}
GuestChoices == {MinGuests, MaxGuests + 1}
PriceChoices == {0, 150}
HotelNames == {"A", "B"}
BookingIds == 1 .. MaxBookings
HotelIds == 1 .. MaxHotels

\* A stay of at most MaxStay ticks, or a check-out that is not after the check-in
CreateBodies ==
    { body \in [ hotelId : HotelIds, checkInDate : Ticks, checkOutDate : Ticks,
                 numberOfGuests : GuestChoices, numberOfRooms : RoomChoices ] :
        /\ body.checkOutDate >= body.checkInDate
        /\ body.checkOutDate - body.checkInDate <= MaxStay }

\* The fields a body supplies
Supplied(body) == {f \in DOMAIN body : IsSome(body[f])}

UpdateBodies ==
    { body \in [ checkInDate : Opt(Ticks), checkOutDate : Opt(Ticks),
                 numberOfRooms : Opt(RoomChoices), status : Opt(Statuses),
                 totalPrice : Opt(PriceChoices) ] :
        Cardinality(Supplied(body)) <= MaxFields }

CancelBodies == [ cancellationReason : Opt({"change of plans"}) ]

GetMyBodies == [ status : Opt(Statuses) ]

HotelBodies ==
    [ name : Opt(HotelNames), pricePerNight : Opt(PriceChoices),
      totalRooms : Opt({0, 1}), availableRooms : Opt({0, InitTotalRooms}) ]

\* GET /hotels?rooms=, GET /hotels/:id/availability with or without its dates
HotelQueries == [ rooms : 0 .. 2 ]
AvailabilityQueries == [ dates : BOOLEAN ]

----------------------------------------------------------------------------
(* The routes behind authenticate, as routes/bookings.ts, routes/hotels.ts *)
(* and routes/auth.ts mount them                                           *)

\* getAllBookings behind authorize("admin", "employee")
GetAllBookingsRun(db, caller, body) ==
    LET loc == Local("getAllBookings", "start", caller, 0, body)
        found == { i \in DOMAIN db.bookings :
                     IsSome(body.status) => db.bookings[i].status = Val(body.status) }
    IN
    IF ~authorize(caller, {"admin", "employee"})
    THEN [db |-> db, loc |-> Done(loc, 403, "Insufficient permissions",
                                  Error("INSUFFICIENT_PERMISSIONS"))]
    ELSE IF \E i \in found : ~IsSome(getNumberOfNights(db.bookings[i]))
    THEN [db |-> db, loc |-> Done(loc, 500, "Internal server error", None)]
    ELSE [db |-> db,
          loc |-> Done(loc, 200, "Found bookings",
                       Some({BookingView(WithId(db.bookings[i], i)) : i \in found}))]

\* getProfile: User.findByPk(ctx.user.userId)
GetProfileRun(db, us, caller) ==
    LET loc == Local("getProfile", "start", caller, 0, None) IN
    IF caller.userId \notin DOMAIN us
    THEN [db |-> db, loc |-> Done(loc, 404, "User not found", Error("USER_NOT_FOUND"))]
    ELSE [db |-> db,
          loc |-> Done(loc, 200, "Profile retrieved successfully",
                       Some(WithId(us[caller.userId], caller.userId)))]

\* A JWT: its payload, whether the signature is the server's, whether it
\* is past its expiry
Tokens == [payload : Callers, signed : BOOLEAN, expired : BOOLEAN]

\* The Authorization header: absent, present with no token part, or carrying
\* a token
Headers == Opt(Opt(Tokens))

\* A decoder that trusts every token; C18_TokenRequired fails with it
verifyToken_Unchecked(token, e) == Some(token.payload)

\* verifyToken(token): the payload, or None when it throws
verifyToken(token, e) ==
    IF e.jwtSecret /\ token.signed /\ ~token.expired
    THEN Some(token.payload)
    ELSE None

\* authenticate: a 401, or ctx.user set and next() to come
authenticate(header, e) ==
    LET loc == Local("authenticate", "next", [userId |-> 0, role |-> "none"], 0, None) IN
    IF ~IsSome(header)
    THEN Done(loc, 401, "Access token is required", Error("MISSING_TOKEN"))
    ELSE IF ~IsSome(Val(header))
    THEN Done(loc, 401, "Invalid authorization header format",
              Error("INVALID_AUTH_HEADER"))
    ELSE LET payload == verifyToken(Val(Val(header)), e) IN
         IF ~IsSome(payload)
         THEN Done(loc, 401,
                   IF ~e.jwtSecret
                   THEN "JWT_SECRET is not defined in environment variables"
                   ELSE IF Val(Val(header)).signed
                   THEN "Token has expired" ELSE "Invalid token",
                   Error("AUTH_FAILED"))
         ELSE [loc EXCEPT !.caller = Val(payload)]

Routes ==
    { "GET /bookings/my", "POST /bookings", "GET /bookings/:id", "PUT /bookings/:id",
      "DELETE /bookings/:id", "GET /bookings", "GET /auth/profile",
      "POST /hotels", "PUT /hotels/:id", "DELETE /hotels/:id" }

\* The handler chain of a route once authenticate has called next()
Handle(route, db, now, us, caller, id, body) ==
    CASE route = "GET /bookings/my" -> GetMyBookingsRun(db, now, caller, body)
      [] route = "POST /bookings" -> CreateBookingRun(db, now, caller, body)
      [] route = "GET /bookings/:id" -> GetBookingByIdRun(db, now, caller, id)
      [] route = "PUT /bookings/:id" -> UpdateBookingRun(db, now, caller, id, body)
      [] route = "DELETE /bookings/:id" -> CancelBookingRun(db, now, caller, id, body)
      [] route = "GET /bookings" -> GetAllBookingsRun(db, caller, body)
      [] route = "GET /auth/profile" -> GetProfileRun(db, us, caller)
      [] route = "POST /hotels" -> CreateHotelRun(db, caller, body)
      [] route = "PUT /hotels/:id" -> UpdateHotelRun(db, caller, id, body)
      [] route = "DELETE /hotels/:id" -> DeleteHotelRun(db, caller, id)

\* A request to a route, from its Authorization header to its response
Routed(header, e, route, db, now, us, id, body) ==
    LET a == authenticate(header, e) IN
    IF a.pc = "done"
    THEN [db |-> db, loc |-> a]
    ELSE Handle(route, db, now, us, a.caller, id, body)

\* The bodies a route is sent
BodiesOf(route) ==
    CASE route \in {"GET /bookings/my", "GET /bookings"} -> GetMyBodies
      [] route = "POST /bookings" -> CreateBodies
      [] route = "PUT /bookings/:id" -> UpdateBodies
      [] route = "DELETE /bookings/:id" -> CancelBodies
      [] route \in {"POST /hotels", "PUT /hotels/:id"} -> HotelBodies
      [] OTHER -> {None}

\* The ids a route is sent
IdsOf(route) ==
    IF route \in {"PUT /hotels/:id", "DELETE /hotels/:id"} THEN HotelIds ELSE BookingIds

----------------------------------------------------------------------------
(* The database when the server starts: one hotel, and the bookings made     *)
(* against it so far, all active, priced and counted as the data model says  *)

SeedBooking(userId, checkIn, checkOut, rooms, status, ref) ==
    [ userId |-> userId, hotelId |-> 1,
      checkInDate |-> checkIn, checkOutDate |-> checkOut,
      numberOfGuests |-> 1, numberOfRooms |-> rooms,
      totalPrice |-> 100 * rooms * (checkOut - checkIn),
      status |-> status, paymentStatus |-> "pending",
      bookingReference |-> Some(ref),
      cancellationReason |-> None, cancellationDate |-> None ]

SeedBookings(ref) ==
    { SeedBooking(u, ci, co, r, st, ref) :
        u \in {1}, ci \in 1 .. MaxDay, co \in 1 .. MaxDay,
        r \in 1 .. InitTotalRooms, st \in {"pending", "confirmed"} }

RECURSIVE SumRooms(_, _)
\* The rooms of the bookings of hotel h that satisfy isActive()
SumRooms(bs, h) ==
    IF bs = <<>> THEN 0
    ELSE (IF Head(bs).hotelId = h /\ isActive(Head(bs))
          THEN Head(bs).numberOfRooms ELSE 0) + SumRooms(Tail(bs), h)

SeedTables ==
    { bs \in UNION { [1 .. n -> SeedBookings(0)] : n \in 0 .. MaxBookings } :
        /\ \A i \in DOMAIN bs : bs[i].checkOutDate > bs[i].checkInDate
        /\ SumRooms(bs, 1) <= InitTotalRooms }

\* createSampleData: the admin user, created without a signup code
SeedUsers ==
    << [ email |-> "admin@wanderlust.com",
         password |-> hashPassword(<<1, 2, 3, 4, 5, 6, 7>>),
         role |-> "admin", isVerified |-> TRUE ] >>

\* EMPLOYEE_SIGNUP_CODE as the deployment sets it
SignupCode == "WANDERLUST2024"

Idle == Local("none", "idle", [userId |-> 0, role |-> "none"], 0, None)

Procs == {"p1", "p2"}

Init ==
    /\ \E bs \in SeedTables :
         /\ bookings = [i \in DOMAIN bs |-> [bs[i] EXCEPT !.bookingReference = Some(i)]]
         /\ hotels = << [ name |-> "A", isActive |-> TRUE, pricePerNight |-> 100,
                          totalRooms |-> InitTotalRooms,
                          availableRooms |-> InitTotalRooms - SumRooms(bs, 1) ] >>
    /\ today = StartDay
    /\ procs = [p \in Procs |-> Idle]
    /\ users = SeedUsers
    /\ env = [signupCode |-> Some(SignupCode), jwtSecret |-> TRUE]

----------------------------------------------------------------------------
(* Requests that do not interleave: each handler runs to its response *)

\* The caps of the model: the tables' sizes and the room counter
Bounded(db) ==
    /\ Len(db.bookings) <= MaxBookings
    /\ Len(db.hotels) <= MaxHotels
    /\ \A h \in DOMAIN db.hotels : db.hotels[h].availableRooms <= MaxAvailable

Respond(r) ==
    /\ Bounded(r.db)
    /\ hotels' = r.db.hotels
    /\ bookings' = r.db.bookings
    /\ UNCHANGED <<today, procs, users, env>>

CreateBooking ==
    \E c \in Callers, body \in CreateBodies :
        Respond(CreateBookingRun(DB, today, c, body))

UpdateBooking ==
    \E c \in Callers, id \in BookingIds, body \in UpdateBodies :
        Respond(UpdateBookingRun(DB, today, c, id, body))

CancelBooking ==
    \E c \in Callers, id \in BookingIds, body \in CancelBodies :
        Respond(CancelBookingRun(DB, today, c, id, body))

GetBookingById ==
    \E c \in Callers, id \in BookingIds :
        Respond(GetBookingByIdRun(DB, today, c, id))

GetMyBookings ==
    \E c \in Callers, body \in GetMyBodies :
        Respond(GetMyBookingsRun(DB, today, c, body))

CreateHotel ==
    \E c \in Callers, body \in HotelBodies :
        Respond(CreateHotelRun(DB, c, body))

UpdateHotel ==
    \E c \in Callers, id \in HotelIds, body \in HotelBodies :
        Respond(UpdateHotelRun(DB, c, id, body))

DeleteHotel ==
    \E c \in Callers, id \in HotelIds :
        Respond(DeleteHotelRun(DB, c, id))

\* Midnight passes
AdvanceDay ==
    /\ today < MaxToday
    /\ today' = today + 1
    /\ UNCHANGED <<hotels, bookings, procs, users, env>>

BookingRequest ==
    \/ CreateBooking
    \/ UpdateBooking
    \/ CancelBooking
    \/ GetBookingById
    \/ GetMyBookings

Next ==
    \/ BookingRequest
    \/ CreateHotel
    \/ UpdateHotel
    \/ DeleteHotel
    \/ AdvanceDay

Spec == Init /\ [][Next]_vars

\* The booking routes alone: no hotel is created, edited or deleted
NextBookings ==
    \/ BookingRequest
    \/ AdvanceDay

SpecBookings == Init /\ [][NextBookings]_vars

\* The hotel routes, and the cancellations that give rooms back
NextHotels ==
    \/ CreateHotel
    \/ UpdateHotel
    \/ DeleteHotel
    \/ CancelBooking

SpecHotels == Init /\ [][NextHotels]_vars

----------------------------------------------------------------------------
(* Requests that interleave: the event loop runs one handler from an await  *)
(* to its next await, then any handler that is ready.  No handler opens a    *)
(* transaction or takes a lock, so every await is a point of interleaving.   *)
(* Each process serves one request.                                          *)

Customers == {c \in Callers : c.role = "customer"}

\* Well-formed create requests for one night at hotel 1
ConcCreateBodies ==
    { body \in CreateBodies :
        /\ body.hotelId = 1
        /\ body.checkInDate = Midnight(1)
        /\ body.checkOutDate = Midnight(2)
        /\ body.numberOfGuests = MinGuests
        /\ body.numberOfRooms \in 1 .. InitTotalRooms }

\* A request arrives at process p
Arrive(p) ==
    /\ procs[p].pc = "idle"
    /\ \/ \E c \in Customers, body \in ConcCreateBodies :
            procs' = [procs EXCEPT ![p] = StartCreate(c, body, today)]
       \/ \E c \in Customers, id \in BookingIds, body \in CancelBodies :
            procs' = [procs EXCEPT ![p] = StartCancel(c, id, body)]
    /\ UNCHANGED <<hotels, bookings, today, users, env>>

\* Process p runs to its next await
Proceed(p) ==
    /\ procs[p].pc \notin {"idle", "done"}
    /\ LET r == Step(DB, procs[p], today) IN
         /\ hotels' = r.db.hotels
         /\ bookings' = r.db.bookings
         /\ procs' = [procs EXCEPT ![p] = r.loc]
    /\ UNCHANGED <<today, users, env>>

NextConc ==
    \/ \E p \in Procs : Arrive(p)
    \/ \E p \in Procs : Proceed(p)

SpecConc == Init /\ [][NextConc]_vars

\* The write process p awaits is rejected by the database (connection lost,
\* lock wait timeout): the handler's catch answers 500
WriteFails(p) ==
    /\ procs[p].pc \in {"createBooking", "saveBooking", "updateHotel"}
    /\ procs' = [procs EXCEPT ![p] = Done(@, 500, "Internal server error", None)]
    /\ UNCHANGED <<hotels, bookings, today, users, env>>

NextFaults ==
    \/ NextConc
    \/ \E p \in Procs : WriteFails(p)

SpecFaults == Init /\ [][NextFaults]_vars

----------------------------------------------------------------------------
(* Bookings asked of hotels that are edited and deleted, as the days pass *)

NextIntake ==
    \/ CreateBooking
    \/ UpdateHotel
    \/ DeleteHotel
    \/ AdvanceDay

SpecIntake == Init /\ [][NextIntake]_vars

----------------------------------------------------------------------------
(* Accounts: register and login against the users table, under every *)
(* setting of EMPLOYEE_SIGNUP_CODE and JWT_SECRET                     *)

Passwords == {<<1, 1, 1, 1, 1, 1>>, <<2, 2, 2, 2, 2, 2>>}

RegisterBodies ==
    [ email : EmailAddresses \cup {"not-an-email"},
      password : Passwords \cup {<<1>>},
      role : Opt(Roles \cup {"root"}),
      employeeSignupCode : Opt({SignupCode, "guess"}) ]

LoginBodies ==
    [ email : EmailAddresses \cup {"not-an-email"},
      password : Passwords \cup {<<1, 2, 3, 4, 5, 6, 7>>, <<>>} ]

Envs == [signupCode : Opt({SignupCode}), jwtSecret : BOOLEAN]

\* The tables as the server finds them: with or without the sample data
InitAuth ==
    /\ users \in {<< >>, SeedUsers}
    /\ env \in Envs
    /\ bookings = << >>
    /\ hotels = << [ name |-> "A", isActive |-> TRUE, pricePerNight |-> 100,
                     totalRooms |-> InitTotalRooms,
                     availableRooms |-> InitTotalRooms ] >>
    /\ today = StartDay
    /\ procs = [p \in Procs |-> Idle]

\* POST /api/auth/register
Register ==
    \E body \in RegisterBodies :
        LET r == RegisterRun(users, StartRegister(body), env) IN
        /\ Len(r.users) <= MaxUsers
        /\ users' = r.users
        /\ UNCHANGED <<hotels, bookings, today, procs, env>>

\* POST /api/auth/login
Login ==
    \E body \in LoginBodies :
        /\ LoginRun(users, body, env).pc = "done"
        /\ UNCHANGED vars

NextAuth ==
    \/ Register
    \/ Login

SpecAuth == InitAuth /\ [][NextAuth]_vars

\* Well-formed register requests of customers and employees
ConcRegisterBodies ==
    { body \in RegisterBodies :
        /\ body.email \in {"ann@x.io", "bob@x.io"}
        /\ body.password \in Passwords
        /\ body.role \in Opt({"employee"})
        /\ body.employeeSignupCode \in Opt({SignupCode}) }

\* A register request arrives at process p
ArriveRegister(p) ==
    /\ procs[p].pc = "idle"
    /\ \E body \in ConcRegisterBodies :
          procs' = [procs EXCEPT ![p] = StartRegister(body)]
    /\ UNCHANGED <<hotels, bookings, today, users, env>>

\* Process p runs register to its next await
ProceedRegister(p) ==
    /\ procs[p].pc \notin {"idle", "done"}
    /\ LET r == RegisterStep(users, procs[p], env) IN
         /\ Len(r.users) <= MaxUsers
         /\ users' = r.users
         /\ procs' = [procs EXCEPT ![p] = r.loc]
    /\ UNCHANGED <<hotels, bookings, today, env>>

NextAuthConc ==
    \/ \E p \in Procs : ArriveRegister(p)
    \/ \E p \in Procs : ProceedRegister(p)

SpecAuthConc == InitAuth /\ [][NextAuthConc]_vars

----------------------------------------------------------------------------
(* The catalogue: hotels created, edited and deactivated, read by the public *)
(* routes and asked for bookings                                            *)

GetAllHotels ==
    \E query \in HotelQueries : Respond(GetAllHotelsRun(DB, query))

GetHotelById ==
    \E id \in HotelIds : Respond(GetHotelByIdRun(DB, id))

CheckAvailability ==
    \E id \in HotelIds, query \in AvailabilityQueries :
        Respond(CheckAvailabilityRun(DB, id, query))

NextCatalog ==
    \/ CreateHotel
    \/ UpdateHotel
    \/ DeleteHotel
    \/ CreateBooking
    \/ GetAllHotels
    \/ GetHotelById
    \/ CheckAvailability

SpecCatalog == Init /\ [][NextCatalog]_vars

----------------------------------------------------------------------------
(* Requests as they reach the router, each with its Authorization header *)

InitRoutes ==
    /\ \E bs \in SeedTables :
         /\ bookings = [i \in DOMAIN bs |-> [bs[i] EXCEPT !.bookingReference = Some(i)]]
         /\ hotels = << [ name |-> "A", isActive |-> TRUE, pricePerNight |-> 100,
                          totalRooms |-> InitTotalRooms,
                          availableRooms |-> InitTotalRooms - SumRooms(bs, 1) ] >>
    /\ today = StartDay
    /\ procs = [p \in Procs |-> Idle]
    /\ users = SeedUsers
    /\ env \in {e \in Envs : IsSome(e.signupCode)}

\* A request to the route: authenticate, then the route's handlers
RoutedRequest(route) ==
    \E header \in Headers, id \in IdsOf(route), body \in BodiesOf(route) :
        Respond(Routed(header, env, route, DB, today, users, id, body))

RoutedCancelBooking == RoutedRequest("DELETE /bookings/:id")
RoutedGetAllBookings == RoutedRequest("GET /bookings")
RoutedGetProfile == RoutedRequest("GET /auth/profile")
RoutedUpdateHotel == RoutedRequest("PUT /hotels/:id")
RoutedDeleteHotel == RoutedRequest("DELETE /hotels/:id")

NextRoutes ==
    \/ RoutedCancelBooking
    \/ RoutedGetAllBookings
    \/ RoutedGetProfile
    \/ RoutedUpdateHotel
    \/ RoutedDeleteHotel

SpecRoutes == InitRoutes /\ [][NextRoutes]_vars

----------------------------------------------------------------------------
(* The properties *)

\* The hotel a create request names is there and active
ActiveHotel(db, id) == id \in DOMAIN db.hotels /\ db.hotels[id].isActive

\* C1: against an active hotel with availableRooms = N, a well-formed request
\* for N rooms is answered 201 and leaves availableRooms = 0, and one for N+1
\* rooms is answered 400 'Not enough rooms available', leaving the bookings
\* and the hotels as they were.
C1_LastRooms ==
    \A c \in Callers, body \in CreateBodies :
        (createBookingSchema(body, today) /\ ActiveHotel(DB, body.hotelId)) =>
            LET N == hotels[body.hotelId].availableRooms
                r == CreateBookingRun(DB, today, c, body)
            IN  /\ body.numberOfRooms = N =>
                    /\ r.loc.resp.status = 201
                    /\ r.db.hotels[body.hotelId].availableRooms = 0
                /\ body.numberOfRooms = N + 1 =>
                    /\ r.loc.resp.status = 400
                    /\ r.loc.resp.message = "Not enough rooms available"
                    /\ r.db = DB

\* C1, the half the code keeps: the request for N+1 rooms
C1_OneTooMany ==
    \A c \in Callers, body \in CreateBodies :
        ( /\ createBookingSchema(body, today)
          /\ ActiveHotel(DB, body.hotelId)
          /\ body.numberOfRooms = hotels[body.hotelId].availableRooms + 1 ) =>
            LET r == CreateBookingRun(DB, today, c, body) IN
                /\ r.loc.resp.status = 400
                /\ r.loc.resp.message = "Not enough rooms available"
                /\ r.db = DB

\* C2: cancelBooking on a pending or confirmed booking the caller may reach
\* sets status to cancelled and adds exactly numberOfRooms to the hotel's
\* availableRooms; cancelling again at once is answered 400 and changes
\* neither the bookings nor the hotels.
C2_CancelOnce ==
    \A c \in Callers, id \in DOMAIN bookings, body \in CancelBodies :
        ( /\ Visible(c, bookings[id])
          /\ bookings[id].status \in {"pending", "confirmed"} ) =>
            LET b == bookings[id]
                r == CancelBookingRun(DB, today, c, id, body)
                again == CancelBookingRun(r.db, today, c, id, body)
            IN  /\ r.loc.resp.status = 200
                /\ r.db.bookings[id].status = "cancelled"
                /\ r.db.hotels[b.hotelId].availableRooms
                       = hotels[b.hotelId].availableRooms + b.numberOfRooms
                /\ \A h \in DOMAIN hotels :
                       h /= b.hotelId => r.db.hotels[h] = hotels[h]
                /\ again.loc.resp.status = 400
                /\ again.db = r.db

\* A booking that cancelBooking has cancelled, its rooms given back, and a
\* second cancellation by its owner answered 400
C2_Cancelled ==
    \E id \in DOMAIN bookings, c \in Callers :
        /\ bookings[id].status = "cancelled"
        /\ IsSome(bookings[id].cancellationDate)
        /\ hotels[bookings[id].hotelId].availableRooms >= bookings[id].numberOfRooms
        /\ c.userId = bookings[id].userId
        /\ CancelBookingRun(DB, today, c, id, [cancellationReason |-> None]).loc.resp.status
              = 400

\* The rooms a finished create request took
Took(p) ==
    IF procs[p].resp.status = 201 THEN procs[p].body.numberOfRooms ELSE 0

\* C3: when two interleaved createBooking requests each ask for all the rooms
\* the hotel had left, exactly one is answered 201 and the other is answered
\* 400 'Not enough rooms available'.
C3_ExactlyOne ==
    \A p, q \in Procs :
        ( /\ p /= q
          /\ procs[p].op = "createBooking" /\ procs[p].pc = "done"
          /\ procs[q].op = "createBooking" /\ procs[q].pc = "done"
          /\ procs[p].body.hotelId = procs[q].body.hotelId
          /\ procs[p].body.numberOfRooms = procs[q].body.numberOfRooms
          /\ hotels[procs[p].body.hotelId].availableRooms + Took(p) + Took(q)
                = procs[p].body.numberOfRooms ) =>
            \/ /\ procs[p].resp.status = 201
               /\ procs[q].resp.status = 400
               /\ procs[q].resp.message = "Not enough rooms available"
            \/ /\ procs[q].resp.status = 201
               /\ procs[p].resp.status = 400
               /\ procs[p].resp.message = "Not enough rooms available"

C5_RoomBounds ==
    \A h \in DOMAIN hotels :
        /\ 0 <= hotels[h].availableRooms
        /\ hotels[h].availableRooms <= hotels[h].totalRooms

C8_OwnBookingsOnly ==
    /\ \A c \in Callers, id \in DOMAIN bookings :
          (~isAdmin(c) /\ ~isEmployee(c) /\ bookings[id].userId /= c.userId) =>
              /\ LET r == GetBookingByIdRun(DB, today, c, id) IN
                     /\ r.loc.resp.status \in {403, 404}
                     /\ r.loc.resp.data = None
                     /\ r.db = DB
              /\ \A body \in UpdateBodies :
                     LET r == UpdateBookingRun(DB, today, c, id, body) IN
                     /\ r.loc.resp.status
                           \in (IF updateBookingSchema(body) THEN {403, 404} ELSE {400})
                     /\ r.loc.resp.data = None
                     /\ r.db = DB
              /\ \A body \in CancelBodies :
                     LET r == CancelBookingRun(DB, today, c, id, body) IN
                     /\ r.loc.resp.status \in {403, 404}
                     /\ r.loc.resp.data = None
                     /\ r.db = DB
    /\ \A c \in Callers, body \in GetMyBodies :
          LET r == GetMyBookingsRun(DB, today, c, body) IN
          /\ \A i \in MyBookings(DB, c, body.status) : bookings[i].userId = c.userId
          /\ IsSome(r.loc.resp.data) =>
                 \A v \in Val(r.loc.resp.data) : v.booking.userId = c.userId
          /\ r.db = DB

\* A customer asks for, edits and cancels a booking that belongs to another
\* user and that an update has completed, and is answered 404 each time
C8_Refused ==
    \E id \in DOMAIN bookings, c \in Callers :
        /\ c.role = "customer" /\ bookings[id].userId /= c.userId
        /\ bookings[id].status = "completed"
        /\ GetBookingByIdRun(DB, today, c, id).loc.resp.status = 404
        /\ UpdateBookingRun(DB, today, c, id,
              [ checkInDate |-> None, checkOutDate |-> None, numberOfRooms |-> None,
                status |-> Some("cancelled"), totalPrice |-> None ]).loc.resp.status = 404
        /\ CancelBookingRun(DB, today, c, id, [cancellationReason |-> None]).loc.resp.status
              = 404

\* The status changes of the booking state machine
AllowedTransitions ==
    { <<"pending", "confirmed">>, <<"confirmed", "completed">>,
      <<"pending", "cancelled">>, <<"confirmed", "cancelled">> }

C10_ClosedBookings ==
    \A id \in DOMAIN bookings, body \in UpdateBodies :
        bookings[id].status \in {"completed", "cancelled"} =>
            \A c \in Callers :
                LET r == UpdateBookingRun(DB, today, c, id, body) IN
                /\ (~isAdmin(c) /\ Visible(c, bookings[id])) =>
                       /\ r.loc.resp.status = 400
                       /\ updateBookingSchema(body) =>
                              r.loc.resp.message
                                = "Cannot modify completed or cancelled bookings"
                       /\ r.db = DB
                /\ (isAdmin(c) /\ updateBookingSchema(body)) =>
                       /\ r.loc.resp.status /= 400
                       /\ Supplied(body) = {"status"} =>
                              /\ r.loc.resp.status = 200
                              /\ r.db.bookings[id].status = Val(body.status)

\* A completed booking whose owner's update is answered 400
C10_Closed ==
    \E id \in DOMAIN bookings, c \in Callers :
        /\ bookings[id].status = "completed"
        /\ c.role = "customer" /\ c.userId = bookings[id].userId
        /\ UpdateBookingRun(DB, today, c, id,
              [ checkInDate |-> None, checkOutDate |-> None, numberOfRooms |-> Some(1),
                status |-> None, totalPrice |-> None ]).loc.resp.status = 400

\* The stay updateBooking prices: the supplied timestamps, or the midnights
\* of the stored days
UpdatedNights(b, body) ==
    Ceil((IF IsSome(body.checkOutDate)
          THEN Val(body.checkOutDate) ELSE Midnight(b.checkOutDate))
         - (IF IsSome(body.checkInDate)
            THEN Val(body.checkInDate) ELSE Midnight(b.checkInDate)),
         TicksPerDay)

\* C11: updateBooking never changes a hotel, whatever fields it is given and
\* whoever calls it; an update that succeeds with dates or numberOfRooms
\* stores totalPrice = the hotel's current pricePerNight * rooms * nights,
\* and one without them computes no price (totalPrice is the body's, or
\* stays).
C11_NoInventory ==
    \A c \in Callers, id \in BookingIds, body \in UpdateBodies :
        LET r == UpdateBookingRun(DB, today, c, id, body) IN
        /\ r.db.hotels = hotels
        /\ r.loc.resp.status = 200 =>
              LET b == bookings[id]
                  after == r.db.bookings[id]
              IN  IF IsSome(body.checkInDate) \/ IsSome(body.checkOutDate)
                     \/ IsSome(body.numberOfRooms)
                  THEN after.totalPrice
                         = hotels[b.hotelId].pricePerNight * after.numberOfRooms
                           * UpdatedNights(b, body)
                  ELSE after.totalPrice
                         = (IF IsSome(body.totalPrice)
                            THEN Val(body.totalPrice) ELSE b.totalPrice)

\* An update has given an active booking more rooms than the hotel ever had,
\* has priced them, and the hotel's counter is where it was
C11_Overbooked ==
    \E id \in DOMAIN bookings :
        /\ isActive(bookings[id])
        /\ bookings[id].numberOfRooms > InitTotalRooms
        /\ bookings[id].totalPrice
              = hotels[bookings[id].hotelId].pricePerNight * bookings[id].numberOfRooms
                * (bookings[id].checkOutDate - bookings[id].checkInDate)
        /\ hotels[bookings[id].hotelId].availableRooms + bookings[id].numberOfRooms
              > InitTotalRooms

\* C12: createBooking with a body the schema refuses (numberOfRooms outside
\* 1..10, numberOfGuests outside 1..20, checkOut <= checkIn, checkIn before
\* today) is answered 400, and with a well-formed body for a hotel that does
\* not exist or is not active it is answered 404; either way the bookings and
\* the hotels stay as they were.
C12_Rejected ==
    \A c \in Callers, body \in CreateBodies :
        LET r == CreateBookingRun(DB, today, c, body)
            malformed ==
                \/ body.numberOfRooms < MinRooms \/ body.numberOfRooms > MaxRooms
                \/ body.numberOfGuests < MinGuests \/ body.numberOfGuests > MaxGuests
                \/ body.checkOutDate <= body.checkInDate
                \/ body.checkInDate < Midnight(today)
        IN  /\ malformed => (r.loc.resp.status = 400 /\ r.db = DB)
            /\ (~malformed /\ ~ActiveHotel(DB, body.hotelId)) =>
                   (r.loc.resp.status = 404 /\ r.db = DB)

\* A day has passed and hotel 1 has been deleted: a request for yesterday is
\* answered 400 and a well-formed one for the deleted hotel 404
C12_Refusals ==
    /\ today > StartDay
    /\ 1 \in DOMAIN hotels /\ ~hotels[1].isActive
    /\ \E c \in Callers, body \in CreateBodies :
          /\ body.hotelId = 1 /\ body.checkInDate < Midnight(today)
          /\ body.checkOutDate > body.checkInDate
          /\ CreateBookingRun(DB, today, c, body).loc.resp.status = 400
    /\ \E c \in Callers, body \in CreateBodies :
          /\ body.hotelId = 1 /\ createBookingSchema(body, today)
          /\ CreateBookingRun(DB, today, c, body).loc.resp.status = 404

C15_SignupCode ==
    /\ \A i \in DOMAIN users :
          users[i].role \in {"employee", "admin"}
            => \/ i <= Len(SeedUsers) /\ users[i] = SeedUsers[i]
               \/ IsSome(env.signupCode)
    /\ \A body \in RegisterBodies :
          LET r == RegisterRun(users, StartRegister(body), env)
              free == \A i \in DOMAIN users : users[i].email /= body.email
              wellFormed == /\ body.email \in EmailAddresses
                            /\ Len(body.password) >= MinPasswordLen
                            /\ body.role \in Opt(Roles)
              privileged == body.role \in {Some("employee"), Some("admin")}
              codeOk == IsSome(env.signupCode) /\ body.employeeSignupCode = env.signupCode
          IN
          /\ wellFormed /\ free /\ privileged /\ ~codeOk
               => /\ r.loc.resp.status = 403
                  /\ r.loc.resp.data = Some([error |-> "INVALID_SIGNUP_CODE"])
                  /\ r.users = users
          /\ r.users /= users
               => /\ r.users = Append(users, r.users[Len(r.users)])
                  /\ r.users[Len(r.users)].role \in {"employee", "admin"}
                       => privileged /\ codeOk
                             /\ r.users[Len(r.users)].role = Val(body.role)
          /\ wellFormed /\ free /\ body.role = None
               => /\ Len(r.users) = Len(users) + 1
                  /\ r.users[Len(r.users)].role = "customer"
                  /\ r.users[Len(r.users)].email = body.email

\* An employee who registered with the configured code is in the users table
C15_Staffed ==
    /\ IsSome(env.signupCode)
    /\ \E i \in DOMAIN users :
          /\ users[i].role = "employee"
          /\ users[i].email = "ann@x.io"

\* C16: no two users have the same email, also when register requests
\* interleave; a well-formed register request for an email that already belongs
\* to a user is answered 409 USER_EXISTS and creates no user, and so is a
\* request in flight that looks the email up once it belongs to a user.
C16_UniqueEmail ==
    /\ \A i, j \in DOMAIN users : users[i].email = users[j].email => i = j
    /\ \A body \in RegisterBodies :
          LET r == RegisterRun(users, StartRegister(body), env) IN
          /\ body.email \in EmailAddresses
          /\ Len(body.password) >= MinPasswordLen
          /\ body.role \in Opt(Roles)
          /\ \E i \in DOMAIN users : users[i].email = body.email
          => /\ r.loc.resp.status = 409
             /\ r.loc.resp.data = Some([error |-> "USER_EXISTS"])
             /\ r.users = users
    /\ \A p \in Procs :
          /\ procs[p].pc = "findUser"
          /\ \E i \in DOMAIN users : users[i].email = procs[p].body.email
          => LET r == RegisterStep(users, procs[p], env) IN
             /\ r.loc.resp.status = 409
             /\ r.loc.resp.data = Some([error |-> "USER_EXISTS"])
             /\ r.users = users

\* Two register requests for one email have interleaved: one created the user,
\* the other passed its lookup before that and failed at the unique index
C16_Raced ==
    \E p, q \in Procs :
        /\ procs[p].pc = "done" /\ procs[p].resp.status = 201
        /\ procs[q].pc = "done" /\ procs[q].resp.status = 500
        /\ procs[p].body.email = procs[q].body.email
        /\ env.jwtSecret
        /\ Cardinality({i \in DOMAIN users : users[i].email = procs[p].body.email}) = 1

\* C17: login with a well-formed email and password answers 200 with a token
\* only when a user has that email and the password verifies against the
\* stored hash; in every other case it answers 401 INVALID_CREDENTIALS, and
\* the answer for an unknown email equals the answer for a known email with a
\* wrong password in status, error code and message.
C17_Credentials ==
    LET wellFormed(body) == body.email \in EmailAddresses /\ Len(body.password) >= 1
        known(body) == \E i \in DOMAIN users : users[i].email = body.email
        verified(body) ==
            \E i \in DOMAIN users :
                /\ users[i].email = body.email
                /\ users[i].password = <<"bcrypt", body.password>>
    IN
    /\ \A body \in LoginBodies :
          LET r == LoginRun(users, body, env).resp IN
          wellFormed(body)
            => /\ r.status = 200
                    => /\ verified(body)
                       /\ IsSome(r.data)
                       /\ Val(r.data).token.email = body.email
                       /\ Val(r.data).token.signed
               /\ verified(body) /\ env.jwtSecret => r.status = 200
               /\ ~verified(body)
                    => /\ r.status = 401
                       /\ r.data = Some([error |-> "INVALID_CREDENTIALS"])
                       /\ r.message = "Invalid email or password"
    /\ \A b1, b2 \in LoginBodies :
          /\ wellFormed(b1) /\ ~known(b1)
          /\ wellFormed(b2) /\ known(b2) /\ ~verified(b2)
          => LoginRun(users, b1, env).resp = LoginRun(users, b2, env).resp

\* One registered user, whose password login can be given rightly or wrongly,
\* and an address nobody registered
C17_Known ==
    /\ env.jwtSecret
    /\ \E i \in DOMAIN users :
          /\ users[i].email = "ann@x.io"
          /\ users[i].password = <<"bcrypt", <<1, 1, 1, 1, 1, 1>> >>
    /\ \A i \in DOMAIN users : users[i].email /= "bob@x.io"

\* C18: a request to a route behind authenticate (the booking routes,
\* /auth/profile, hotel create, update and delete) with no Authorization
\* header, with a header that has no token part, or with a token that is not
\* signed by the server or has expired, is answered 401 by authenticate itself:
\* no handler runs and no booking or hotel changes.  A token that verifies
\* always gets past authenticate.
C18_TokenRequired ==
    \A route \in Routes, header \in Headers :
        \A id \in IdsOf(route), body \in BodiesOf(route) :
            LET r == Routed(header, env, route, DB, today, users, id, body)
                verifies == /\ IsSome(header) /\ IsSome(header[1])
                            /\ header[1][1].signed /\ ~header[1][1].expired
                            /\ env.jwtSecret
            IN
            IF verifies
            THEN /\ authenticate(header, env).pc = "next"
                 /\ authenticate(header, env).caller = header[1][1].payload
            ELSE /\ r.loc.op = "authenticate"
                 /\ r.loc.resp.status = 401
                 /\ r.db = DB

\* After an admin deactivated the hotel, a booking is left that its owner can
\* cancel with a good token and cannot with the same token once expired
C18_Tempting ==
    /\ env.jwtSecret
    /\ \E h \in DOMAIN hotels : ~hotels[h].isActive
    /\ \E id \in DOMAIN bookings, body \in CancelBodies :
          LET owner == [userId |-> bookings[id].userId, role |-> "customer"]
              good == Some(Some([payload |-> owner, signed |-> TRUE, expired |-> FALSE]))
              late == Some(Some([payload |-> owner, signed |-> TRUE, expired |-> TRUE]))
          IN
          /\ Routed(good, env, "DELETE /bookings/:id", DB, today, users, id, body)
                .loc.resp.status = 200
          /\ Routed(late, env, "DELETE /bookings/:id", DB, today, users, id, body)
                .loc.resp.status = 401

\* C19: an authenticated caller whose role is outside a route's allowed set is
\* answered 403 INSUFFICIENT_PERMISSIONS and the handler does not run: listing
\* all bookings and creating or updating a hotel take admin or employee,
\* deactivating a hotel takes admin; a caller in the set is never answered
\* 403.  So through the hotel routes a customer changes no hotel record and an
\* employee deactivates none.
C19_RoleGuards ==
    \A c \in Callers :
        \A route \in {"GET /bookings", "POST /hotels", "PUT /hotels/:id", "DELETE /hotels/:id"} :
            \A id \in IdsOf(route), body \in BodiesOf(route) :
                LET header == Some(Some([payload |-> c, signed |-> TRUE, expired |-> FALSE]))
                    r == Routed(header, env, route, DB, today, users, id, body)
                    allowed == IF route = "DELETE /hotels/:id"
                               THEN {"admin"} ELSE {"admin", "employee"}
                IN
                env.jwtSecret
                  => /\ c.role \notin allowed
                          => /\ r.loc.resp.status = 403
                             /\ r.loc.resp.data = Some([error |-> "INSUFFICIENT_PERMISSIONS"])
                             /\ r.db = DB
                     /\ c.role \in allowed => r.loc.resp.status /= 403
                     /\ c.role = "customer" => r.db.hotels = hotels
                     /\ c.role = "employee"
                          => /\ Len(r.db.hotels) >= Len(hotels)
                             /\ \A h \in DOMAIN hotels :
                                   r.db.hotels[h].isActive = hotels[h].isActive

\* A hotel that staff repriced and an admin deactivated
C19_Managed ==
    /\ env.jwtSecret
    /\ \E h \in DOMAIN hotels :
          /\ ~hotels[h].isActive
          /\ hotels[h].pricePerNight = 150

\* C20: deleteHotel is a soft delete.  It sets isActive to false on the one
\* hotel and removes no hotel and no booking; no step ever removes a hotel or
\* a booking or makes an inactive hotel active again; and while a hotel is
\* inactive it is absent from every getAllHotels answer, getHotelById answers
\* 404 for it, checkAvailability given its dates answers 404 for it, and no
\* createBooking for it gets further than a 400 for its body or the 404 for
\* the hotel, a body that passes the schema always getting the 404.
C20_SoftDelete ==
    /\ [](/\ \A c \in Callers, id \in HotelIds :
               LET r == DeleteHotelRun(DB, c, id) IN
               /\ c.role = "admin" /\ id \in DOMAIN hotels => r.loc.resp.status = 200
               /\ r.loc.resp.status = 200
                    => /\ r.db.bookings = bookings
                       /\ r.db.hotels = [hotels EXCEPT ![id].isActive = FALSE]
               /\ r.loc.resp.status /= 200 => r.db = DB
          /\ \A h \in DOMAIN hotels :
               ~hotels[h].isActive
                 => /\ \A query \in HotelQueries :
                          LET r == GetAllHotelsRun(DB, query).loc.resp IN
                          /\ r.status = 200
                          /\ \A x \in Val(r.data) : x.id /= h
                    /\ GetHotelByIdRun(DB, h).loc.resp.status = 404
                    /\ \A query \in AvailabilityQueries :
                          query.dates
                            => CheckAvailabilityRun(DB, h, query).loc.resp.status = 404
                    /\ \A c \in Callers, body \in CreateBodies :
                          body.hotelId = h
                            => LET r == CreateBookingRun(DB, today, c, body) IN
                               /\ r.db = DB
                               /\ r.loc.resp.status \in {400, 404}
                               /\ createBookingSchema(body, today)
                                    => r.loc.resp.status = 404)
    /\ [][/\ Len(bookings') >= Len(bookings)
           /\ \A h \in DOMAIN hotels :
                 /\ h \in DOMAIN hotels'
                 /\ ~hotels[h].isActive => ~hotels'[h].isActive]_vars

\* One hotel has been deactivated while another is active, and a booking made
\* at the deactivated hotel is still on record
C20_Deactivated ==
    /\ \E h \in DOMAIN hotels : ~hotels[h].isActive
    /\ \E h \in DOMAIN hotels : hotels[h].isActive
    /\ \E id \in DOMAIN bookings : ~hotels[bookings[id].hotelId].isActive

\* C21: a constraint violation raised by a write reaches the caller as 409, 422
\* or 400 and never as 500: a register request whose User.create meets the
\* unique index on email, and a createBooking whose Booking.create fails the
\* model's validation.
C21_ConstraintSurfaced ==
    /\ \A p \in Procs :
          /\ procs[p].op = "register" /\ procs[p].pc = "createUser"
          /\ \E i \in DOMAIN users : users[i].email = procs[p].body.email
          => RegisterStep(users, procs[p], env).loc.resp.status \in {400, 409, 422}
    /\ \A c \in Callers, body \in CreateBodies :
          LET start == StartCreate(c, body, today)
              found == CreateFindHotel(DB, start)
          IN
          /\ start.pc = "findHotel"
          /\ found.loc.pc = "createBooking"
          /\ CreateInsert(DB, found.loc).loc.pc = "done"
          => CreateBookingRun(DB, today, c, body).loc.resp.status \in {400, 409, 422}

C25_RestoredOnce ==
    \A p, q \in Procs :
        ( /\ p /= q
          /\ procs[p].op = "cancelBooking" /\ procs[p].pc = "done"
          /\ procs[q].op = "cancelBooking" /\ procs[q].pc = "done"
          /\ procs[p].id = procs[q].id
          /\ procs[p].resp.status = 200 )
        => /\ bookings[procs[p].id].status = "cancelled"
           /\ hotels[bookings[procs[p].id].hotelId].availableRooms
                = Val(procs[p].hotel).availableRooms + bookings[procs[p].id].numberOfRooms
           /\ hotels[bookings[procs[p].id].hotelId].availableRooms
                = InitTotalRooms - SumRooms(bookings, bookings[procs[p].id].hotelId)
           /\ procs[q].resp.status \in {200, 400, 404}

\* Both requests passed canBeCancelled before either saved, and both were
\* answered 200
C25_BothSucceeded ==
    \E p, q \in Procs :
        /\ p /= q
        /\ procs[p].op = "cancelBooking" /\ procs[p].pc = "done"
        /\ procs[q].op = "cancelBooking" /\ procs[q].pc = "done"
        /\ procs[p].id = procs[q].id
        /\ procs[p].resp.status = 200 /\ procs[q].resp.status = 200
        /\ bookings[procs[p].id].numberOfRooms = 1

C28_ReferenceGenerated ==
    \A c \in Callers, body \in CreateBodies :
        LET start == StartCreate(c, body, today)
            found == CreateFindHotel(DB, start)
            r == CreateBookingRun(DB, today, c, body)
        IN
        start.pc = "findHotel" /\ found.loc.pc = "createBooking"
          => /\ Len(r.db.bookings) = Len(bookings) + 1
             /\ IsSome(r.db.bookings[Len(r.db.bookings)].bookingReference)
             /\ r.db.bookings[Len(r.db.bookings)].status = "pending"
             /\ r.db.bookings[Len(r.db.bookings)].paymentStatus = "pending"
             /\ r.db.bookings[Len(r.db.bookings)].userId = c.userId

\* C29: createBooking accepts the check-in dates from today on and no other:
\* an otherwise valid request whose checkInDate is today's date passes the
\* request schema and the Booking model's checkInDate validator on whatever
\* day it arrives, and one whose checkInDate is before today is rejected.
C29_TodayAccepted ==
    \A body \in CreateBodies :
        ( /\ body.hotelId > 0
          /\ body.numberOfGuests >= MinGuests /\ body.numberOfGuests <= MaxGuests
          /\ body.numberOfRooms >= MinRooms /\ body.numberOfRooms <= MaxRooms
          /\ body.checkOutDate > body.checkInDate )
        => /\ DayOf(body.checkInDate) = today
                => /\ createBookingSchema(body, today)
                   /\ checkInDateValid(DayOf(body.checkInDate))
           /\ DayOf(body.checkInDate) < today => ~createBookingSchema(body, today)

====
